---- MODULE Spec2Model ----
(***************************************************************************)
(* Model of the subscriber application (src/app.py, src/logging_config.py):*)
(* a Flask front controller over one table, subscribers(id, email,         *)
(* created_at), with structured JSON logging.  Requests are handled        *)
(* concurrently by the hosting server; a request's handler is split into   *)
(* steps at its database round trips, which is where requests interleave.  *)
(* Strings are sequences of one-character strings so that strip() and      *)
(* lower() are computed, not assumed.  The application is the one the      *)
(* entry point starts: app.run(debug=True), under which Flask propagates   *)
(* an exception that leaves a view function.                               *)
(***************************************************************************)
EXTENDS Integers, Sequences, FiniteSets, TLC

\* ------------------------------------------------------------------ bounds
\* Total number of requests the server receives in a run.
MaxRequests == 3
\* The wall clock (datetime.utcnow) takes the values 0..MaxClock.
MaxClock == 1

\* Worker threads of the hosting server handling requests concurrently.
Procs == {1, 2}

\* --------------------------------------------------------------- constants
FlashInvalid == "Invalid email address. Please try again."
FlashDuplicate == "This email is already subscribed."
FlashSuccess == "Subscription successful! Thank you."
FlashDbError == "Something went wrong saving your subscription."
NoFlash == "none"

IndexPage == "index.html"
SubscribersPage == "subscribers.html"
RedirectIndex == "redirect:/"
HealthPayload == "{status:ok}"
ServerErrorPage == "Internal Server Error"
NoBody == "none"

\* ---------------------------------------------------------------- strings
e_lower == <<"a", "@", "b", ".", "c">>
e_upper == <<"A", "@", "B", ".", "c">>
e_other == <<"d", "@", "b", ".", "c">>
e_empty == <<>>
e_noat == <<"a", "b", ".", "c">>
e_nodomain == <<"a", "@">>

\* The form submissions the clients send: the email field as typed.
RawInputs == {e_lower, e_upper, e_other, e_empty, e_noat, e_nodomain}

LowerChar(c) ==
    CASE c = "A" -> "a"
      [] c = "B" -> "b"
      [] c = "C" -> "c"
      [] c = "D" -> "d"
      [] OTHER -> c

\* str.lower()
Lower(s) == [i \in 1..Len(s) |-> LowerChar(s[i])]

IsSpace(c) == c = " "

RECURSIVE LStrip(_)
LStrip(s) == IF s # <<>> /\ IsSpace(Head(s)) THEN LStrip(Tail(s)) ELSE s

RECURSIVE RStrip(_)
RStrip(s) ==
    IF s # <<>> /\ IsSpace(s[Len(s)]) THEN RStrip(SubSeq(s, 1, Len(s) - 1)) ELSE s

\* str.strip()
Strip(s) == RStrip(LStrip(s))

NormalizeNoLower(s) == Strip(s)

\* email = form.email.data.strip().lower()
Normalize(s) == Lower(Strip(s))

\* validators.DataRequired: the field is present and not only whitespace.
DataRequired(s) == s # <<>> /\ Strip(s) # <<>>

AtPositions(s) == {i \in 1..Len(s) : s[i] = "@"}

EmailAnyText(s) == \A i \in 1..Len(s) : ~IsSpace(s[i])

\* validators.Email: one "@", a non-empty local part, a dotted domain with no
\* empty label, no whitespace anywhere.
Email(s) ==
    /\ \A i \in 1..Len(s) : ~IsSpace(s[i])
    /\ Cardinality(AtPositions(s)) = 1
    /\ LET at == CHOOSE i \in AtPositions(s) : TRUE
           dots == {i \in (at + 1)..Len(s) : s[i] = "."}
       IN /\ at > 1
          /\ \A i \in 1..(at - 1) : s[i] # "."
          /\ dots # {}
          /\ \A i \in dots : i > at + 1 /\ i < Len(s) /\ (i + 1) \notin dots

\* form.validate_on_submit(): the request is a POST, the CSRF token FlaskForm
\* adds is valid, and every validator of the email field passes.
validate_on_submit(raw, csrf) == csrf /\ DataRequired(raw) /\ Email(raw)

\* ------------------------------------------------------------------ state
VARIABLES
    table,      \* the subscribers table: a set of rows [id, email, created_at]
    nextId,     \* the table's auto-increment counter
    clock,      \* the last value datetime.utcnow() returned
    dbUp,       \* whether the database answers
    log,        \* logs/app.jsonl: the structured log lines written so far
    nreq,       \* requests received so far
    req         \* per worker: the request it is handling

vars == <<table, nextId, clock, dbUp, log, nreq, req>>

Routes == {"index", "subscribe", "subscribers", "health"}

Emails(t) == {r.email : r \in t}
Ids(t) == {r.id : r \in t}

\* A worker's request: where its handler stands (pc), what was submitted, the
\* response built so far, and a record of what the handler did (error, outcome,
\* check, matchAtStart, dbOps, added) for stating properties.
IdleReq ==
    [pc |-> "idle", route |-> "none", request_id |-> 0, raw |-> <<>>, csrf |-> TRUE,
     email |-> <<>>, status |-> 0, body |-> NoBody, flash |-> NoFlash,
     rows |-> <<>>, error |-> "none", outcome |-> "none",
     matchAtStart |-> FALSE, check |-> "none", dbOps |-> 0, added |-> {}]

Init ==
    /\ table = {}
    /\ nextId = 1
    /\ clock = 0
    /\ dbUp = TRUE
    /\ log = {}
    /\ nreq = 0
    /\ req = [p \in Procs |-> IdleReq]

\* One structured log line (JsonFormatter.format): the event and the
\* correlation id; the other context fields carry no state of interest.
LogLine(event, rid) == [event |-> event, request_id |-> rid]

\* ------------------------------------------------------------ environment
\* The database becomes unreachable, and reachable again.
DbFail ==
    /\ dbUp
    /\ dbUp' = FALSE
    /\ UNCHANGED <<table, nextId, clock, log, nreq, req>>

DbRecover ==
    /\ ~dbUp
    /\ dbUp' = TRUE
    /\ UNCHANGED <<table, nextId, clock, log, nreq, req>>

\* datetime.utcnow(): the clock has stood still since it was last read, or has
\* advanced.
utcnow(last) == {t \in {last, last + 1} : t <= MaxClock}

\* --------------------------------------------------------------- requests
\* after_request: the http_request summary line, written once the view has
\* returned its response.
log_request(lg, rid) == lg \cup {LogLine("http_request", rid)}

Free(p) == req[p].pc \in {"idle", "done"}

\* A case-insensitive match of the submitted address is stored.
CaseInsensitiveMatch(raw, t) == \E r \in t : Lower(r.email) = Lower(raw)

\* A request arrives and the server hands it to its first free worker;
\* before_request attaches a fresh correlation id (uuid4, here a counter).
attach_request_id(p) ==
    /\ Free(p)
    /\ \A q \in Procs : q < p => ~Free(q)
    /\ nreq < MaxRequests
    /\ nreq' = nreq + 1
    /\ \E route \in Routes, raw \in RawInputs, csrf \in BOOLEAN :
        /\ route # "subscribe" => raw = <<>> /\ csrf
        /\ ~csrf => raw = e_lower
        /\ req' = [req EXCEPT ![p] =
                [IdleReq EXCEPT !.pc = route, !.route = route,
                                !.request_id = nreq + 1,
                                !.raw = raw, !.csrf = csrf,
                                !.matchAtStart = CaseInsensitiveMatch(raw, table)]]
    /\ UNCHANGED <<table, nextId, clock, dbUp, log>>

\* GET /
index(p) ==
    /\ req[p].pc = "index"
    /\ log' = log_request(log, req[p].request_id)
    /\ req' = [req EXCEPT ![p].pc = "done", ![p].status = 200,
                          ![p].body = IndexPage, ![p].outcome = "index"]
    /\ UNCHANGED <<table, nextId, clock, dbUp, nreq>>

\* POST /subscribe, step 1: validation, normalisation, subscribe_attempt.
subscribe_validate(p) ==
    /\ req[p].pc = "subscribe"
    /\ \/ /\ ~validate_on_submit(req[p].raw, req[p].csrf)
          /\ log' = log_request(
                        log \cup {LogLine("subscribe_rejected", req[p].request_id)},
                        req[p].request_id)
          /\ req' = [req EXCEPT ![p].pc = "done", ![p].status = 400,
                                ![p].body = IndexPage, ![p].flash = FlashInvalid,
                                ![p].outcome = "rejected"]
       \/ /\ validate_on_submit(req[p].raw, req[p].csrf)
          /\ log' = log \cup {LogLine("subscribe_attempt", req[p].request_id)}
          /\ req' = [req EXCEPT ![p].pc = "query",
                                ![p].email = Normalize(req[p].raw)]
    /\ UNCHANGED <<table, nextId, clock, dbUp, nreq>>

\* session.query(Subscriber).filter(Subscriber.email == email).first()
Exists(t, email) == \E r \in t : r.email = email

\* POST /subscribe, step 2: the existence check, which is outside the try
\* block: an exception of the query leaves the view function.
subscribe_query(p) ==
    /\ req[p].pc = "query"
    /\ \/ /\ ~dbUp
          /\ req' = [req EXCEPT ![p].pc = "raised", ![p].dbOps = @ + 1,
                                ![p].error = "OperationalError"]
          /\ log' = log
       \/ /\ dbUp
          /\ Exists(table, req[p].email)
          /\ log' = log_request(
                        log \cup {LogLine("subscribe_duplicate", req[p].request_id)},
                        req[p].request_id)
          /\ req' = [req EXCEPT ![p].pc = "done", ![p].dbOps = @ + 1,
                                ![p].check = "found",
                                ![p].status = 302, ![p].body = RedirectIndex,
                                ![p].flash = FlashDuplicate,
                                ![p].outcome = "duplicate"]
       \/ /\ dbUp
          /\ ~Exists(table, req[p].email)
          /\ log' = log
          /\ req' = [req EXCEPT ![p].pc = "commit", ![p].dbOps = @ + 1,
                                ![p].check = "absent"]
    /\ UNCHANGED <<table, nextId, clock, dbUp, nreq>>

NoUniqueConstraint(t, email) == TRUE

\* The storage layer's unique index on subscribers.email.
UniqueOk(t, email) == email \notin Emails(t)

NewRowReusedId(id, email, now) == [id |-> 1, email |-> email, created_at |-> now]

\* Subscriber(email=email) as inserted: auto id, created_at default utcnow.
NewRow(id, email, now) == [id |-> id, email |-> email, created_at |-> now]

AddWithoutCommit(t, row) == t

\* session.add(sub); session.commit(): the row is in the table.
Commit(t, row) == t \cup {row}

\* POST /subscribe, step 3: session.add + session.commit inside try/except,
\* then the redirect; on an exception rollback, subscribe_db_error and 500.
subscribe_commit(p) ==
    /\ req[p].pc = "commit"
    /\ \/ /\ dbUp
          /\ UniqueOk(table, req[p].email)
          /\ \E now \in utcnow(clock) :
                /\ clock' = now
                /\ table' = Commit(table, NewRow(nextId, req[p].email, now))
          /\ nextId' = nextId + 1
          /\ log' = log_request(
                        log \cup {LogLine("subscribe_success", req[p].request_id)},
                        req[p].request_id)
          /\ req' = [req EXCEPT ![p].pc = "done", ![p].dbOps = @ + 1,
                                ![p].added = @ \cup {nextId},
                                ![p].status = 302, ![p].body = RedirectIndex,
                                ![p].flash = FlashSuccess,
                                ![p].outcome = "success"]
       \/ /\ dbUp
          /\ ~UniqueOk(table, req[p].email)
          \* InnoDB consumes the auto-increment value of a rejected insert,
          \* SQLite does not.
          /\ \E burn \in {0, 1} : nextId' = nextId + burn
          /\ UNCHANGED <<table, clock>>
          /\ log' = log_request(
                        log \cup {LogLine("subscribe_db_error", req[p].request_id)},
                        req[p].request_id)
          /\ req' = [req EXCEPT ![p].pc = "done", ![p].dbOps = @ + 1,
                                ![p].error = "IntegrityError",
                                ![p].status = 500, ![p].body = IndexPage,
                                ![p].flash = FlashDbError,
                                ![p].outcome = "db_error"]
       \/ /\ ~dbUp
          /\ UNCHANGED <<table, nextId, clock>>
          /\ log' = log_request(
                        log \cup {LogLine("subscribe_db_error", req[p].request_id)},
                        req[p].request_id)
          /\ req' = [req EXCEPT ![p].pc = "done", ![p].dbOps = @ + 1,
                                ![p].error = "OperationalError",
                                ![p].status = 500, ![p].body = IndexPage,
                                ![p].flash = FlashDbError,
                                ![p].outcome = "db_error"]
    /\ UNCHANGED <<dbUp, nreq>>

IsPermutation(s, t) ==
    /\ Len(s) = Cardinality(t)
    /\ {s[i] : i \in 1..Len(s)} = t

\* select(Subscriber).order_by(Subscriber.created_at.desc()): every order of
\* the rows that is descending in created_at; rows with equal created_at come
\* in whatever order the backend produces.
OrderedByCreatedAtDesc(t) ==
    {s \in [1..Cardinality(t) -> t] :
        /\ IsPermutation(s, t)
        /\ \A i \in 1..(Len(s) - 1) : s[i].created_at >= s[i + 1].created_at}

\* GET /subscribers: the query is not guarded, an exception leaves the view.
list_subscribers(p) ==
    /\ req[p].pc = "subscribers"
    /\ \/ /\ ~dbUp
          /\ req' = [req EXCEPT ![p].pc = "raised", ![p].dbOps = @ + 1,
                                ![p].error = "OperationalError"]
          /\ log' = log
       \/ /\ dbUp
          /\ \E s \in OrderedByCreatedAtDesc(table) :
                req' = [req EXCEPT ![p].pc = "done", ![p].dbOps = @ + 1,
                                   ![p].rows = s, ![p].status = 200,
                                   ![p].body = SubscribersPage,
                                   ![p].outcome = "listed"]
          /\ log' = log_request(log, req[p].request_id)
    /\ UNCHANGED <<table, nextId, clock, dbUp, nreq>>

HealthStatusFromDb(up) == IF up THEN 200 ELSE 503

\* The status GET /health answers with, whatever the database's state.
HealthStatus(up) == 200

\* GET /health
health(p) ==
    /\ req[p].pc = "health"
    /\ log' = log_request(
                  log \cup {LogLine("health_check", req[p].request_id)},
                  req[p].request_id)
    /\ req' = [req EXCEPT ![p].pc = "done", ![p].status = HealthStatus(dbUp),
                          ![p].body = HealthPayload, ![p].outcome = "health"]
    /\ UNCHANGED <<table, nextId, clock, dbUp, nreq>>

\* app.run(debug=True): Flask propagates an exception that leaves a view.
PROPAGATE_EXCEPTIONS == TRUE

\* An exception left the view function.  Propagated, it leaves the
\* application: no after_request function runs and the server answers 500.
\* Otherwise Flask answers 500 itself and runs the after_request functions.
handle_exception(p) ==
    /\ req[p].pc = "raised"
    /\ log' = IF PROPAGATE_EXCEPTIONS THEN log
              ELSE log_request(log, req[p].request_id)
    /\ req' = [req EXCEPT ![p].pc = "done", ![p].status = 500,
                          ![p].body = ServerErrorPage,
                          ![p].outcome = "unhandled"]
    /\ UNCHANGED <<table, nextId, clock, dbUp, nreq>>

Next ==
    \/ DbFail
    \/ DbRecover
    \/ \E p \in Procs :
        \/ attach_request_id(p)
        \/ index(p)
        \/ subscribe_validate(p)
        \/ subscribe_query(p)
        \/ subscribe_commit(p)
        \/ list_subscribers(p)
        \/ health(p)
        \/ handle_exception(p)

Spec == Init /\ [][Next]_vars


\* ================================================================ claims
Done(p) == req[p].pc = "done"
Subscribed(p) == Done(p) /\ req[p].route = "subscribe"
Valid(p) == validate_on_submit(req[p].raw, req[p].csrf)
RowsOf(t, email) == {r \in t : r.email = email}

\* C1: in every reachable state of the table no two rows have the same email
\* compared case-insensitively, and every stored email equals its own
\* trimmed, lower-cased form.
C1_UniqueNormalizedEmails ==
    /\ \A r1, r2 \in table : Lower(r1.email) = Lower(r2.email) => r1 = r2
    /\ \A r \in table : r.email = Lower(Strip(r.email))

\* Two concurrent requests for the same address in different letter case have
\* both completed: one stored it, the unique index rejected the other.
C1_Witness ==
    \E p, q \in Procs :
        /\ Subscribed(p) /\ Subscribed(q)
        /\ req[p].raw = e_upper /\ req[p].outcome = "success"
        /\ req[q].raw = e_lower /\ req[q].error = "IntegrityError"
        /\ Cardinality(table) = 2

\* C2 as claimed: a submission that passes validation and whose normalized
\* form the existence check does not find adds exactly one row with the
\* normalized email, flashes success and ends with the redirect to /.
C2_Original ==
    \A p \in Procs :
        Subscribed(p) /\ Valid(p) /\ req[p].check = "absent" =>
            /\ req[p].outcome = "success"
            /\ req[p].status = 302 /\ req[p].body = RedirectIndex
            /\ req[p].flash = FlashSuccess
            /\ \E r \in table : req[p].added = {r.id} /\ r.email = Lower(Strip(req[p].raw))

\* C2 as amended: such a submission adds exactly one row with the normalized
\* email, flashes success and redirects to / when its commit succeeds; when
\* the commit fails (the database is unreachable, or the unique index rejects
\* the row because a concurrent request stored the address first) it adds no
\* row, flashes the generic failure message and responds 500.
C2_SubscribeOnce ==
    \A p \in Procs :
        Subscribed(p) /\ Valid(p) /\ req[p].check = "absent" =>
            \/ /\ req[p].outcome = "success"
               /\ req[p].status = 302 /\ req[p].body = RedirectIndex
               /\ req[p].flash = FlashSuccess
               /\ \E r \in table :
                    /\ req[p].added = {r.id}
                    /\ r.email = Lower(Strip(req[p].raw))
                    /\ RowsOf(table, r.email) = {r}
            \/ /\ req[p].outcome = "db_error"
               /\ req[p].error \in {"OperationalError", "IntegrityError"}
               /\ req[p].status = 500 /\ req[p].body = IndexPage
               /\ req[p].flash = FlashDbError
               /\ req[p].added = {}

\* An upper-case submission was stored in lower case, and another valid
\* submission that the check did not find failed at its commit.
C2_Witness ==
    \E p, q \in Procs :
        /\ Subscribed(p) /\ req[p].raw = e_upper /\ req[p].outcome = "success"
        /\ Subscribed(q) /\ req[q].check = "absent" /\ req[q].outcome = "db_error"

\* C3 as claimed: a valid submission whose case-insensitive match is already
\* stored adds no row, flashes 'already subscribed' and is answered with the
\* redirect to /.
C3_Claim ==
    \A p \in Procs :
        Subscribed(p) /\ Valid(p) /\ req[p].matchAtStart =>
            /\ req[p].added = {}
            /\ req[p].flash = FlashDuplicate
            /\ req[p].status = 302 /\ req[p].body = RedirectIndex

\* C4: a submission that fails form validation (empty, no "@", no domain, or
\* a bad form token) is answered 400 with the invalid-email flash and the
\* form, without any database round trip and without a row added.
Malformed(raw) ==
    \/ raw = <<>>
    \/ AtPositions(raw) = {}
    \/ \E i \in AtPositions(raw) : i = Len(raw)

C4_RejectedUntouched ==
    \A p \in Procs :
        Subscribed(p) /\ (~Valid(p) \/ Malformed(req[p].raw)) =>
            /\ req[p].outcome = "rejected"
            /\ req[p].status = 400 /\ req[p].body = IndexPage
            /\ req[p].flash = FlashInvalid
            /\ req[p].dbOps = 0
            /\ req[p].added = {}

\* A submission with no "@" was rejected while the table holds a row.
C4_Witness ==
    \E p \in Procs :
        /\ Subscribed(p) /\ req[p].raw = e_noat /\ req[p].status = 400
        /\ table # {}

\* C5 as claimed: a POST /subscribe that met a persistence failure rolled
\* back, flashed the generic failure message, logged subscribe_db_error and
\* answered 500 from the handler, with no row added.
C5_Claim ==
    \A p \in Procs :
        Subscribed(p) /\ req[p].error # "none" =>
            /\ req[p].outcome = "db_error"
            /\ req[p].status = 500
            /\ req[p].flash = FlashDbError
            /\ LogLine("subscribe_db_error", req[p].request_id) \in log
            /\ req[p].added = {}

MaxId(rows) == CHOOSE i \in Ids(rows) : \A j \in Ids(rows) : j <= i

\* C6 as claimed: a listing is ordered by created_at descending and its first
\* row is the most recently inserted one.
C6_Claim ==
    \A p \in Procs :
        Done(p) /\ req[p].outcome = "listed" /\ req[p].rows # <<>> =>
            LET rows == req[p].rows
                listed == {rows[i] : i \in 1..Len(rows)}
            IN /\ \A i \in 1..(Len(rows) - 1) :
                      rows[i].created_at >= rows[i + 1].created_at
               /\ rows[1].id = MaxId(listed)

\* C7: GET /health answers 200 with the fixed payload, whatever the state of
\* the database, and makes no database round trip.
C7_HealthAlwaysOk ==
    \A p \in Procs :
        Done(p) /\ req[p].route = "health" =>
            /\ req[p].status = 200
            /\ req[p].body = HealthPayload
            /\ req[p].dbOps = 0
            /\ req[p].added = {}

\* GET /health has answered while the database is unreachable and the table
\* is populated.
C7_Witness ==
    \E p \in Procs :
        /\ Done(p) /\ req[p].route = "health"
        /\ ~dbUp
        /\ table # {}

\* C8 as claimed: a request that ended in an error outcome has at least one
\* structured log line carrying its correlation id.
C8_Claim ==
    \A p \in Procs :
        Done(p) /\ req[p].status >= 400 =>
            \E l \in log : l.request_id = req[p].request_id

\* C9: rows are never removed or changed, a step adds at most one row, the
\* new row's id is greater than every earlier id, and the only step that
\* changes the table is a POST /subscribe ending in the success outcome.
C9_RowsImmutable ==
    [][/\ table \subseteq table'
       /\ \A r \in table' \ table : \A o \in table : r.id > o.id
       /\ table' # table =>
            /\ Cardinality(table' \ table) = 1
            /\ \E p \in Procs :
                 /\ req[p].pc = "commit"
                 /\ req'[p].pc = "done"
                 /\ req'[p].outcome = "success"
                 /\ \A q \in Procs \ {p} : req'[q] = req[q]]_vars

\* Two rows are stored and requests of the other kinds have completed.
C9_Witness ==
    /\ Cardinality(table) = 2
    /\ \E p \in Procs : Done(p) /\ req[p].route # "subscribe"

====
